---------------------------- MODULE Spec2Model ----------------------------
(***************************************************************************)
(* IDOT bid-letting scraper: a model of the two source variants            *)
(*   "api"  = src/api/scrape.py  (function handler, returns a dict)        *)
(*   "root" = src/scrape.py      (BaseHTTPRequestHandler subclass)         *)
(* Text is modelled by TLA+ strings, on which TLC evaluates Len, SubSeq    *)
(* and \o character by character.  A fetched page is the sequence of       *)
(* events html.parser delivers to SimpleHTMLParser's three handlers.       *)
(***************************************************************************)
EXTENDS Integers, Sequences, FiniteSets, TLC

VARIABLES
    variant,        \* which source file is running: "api" or "root"
    pc,             \* position of the single thread of control
    request,        \* the request being handled: [method, body]
    repo_url,       \* process_repository's argument
    contract_urls,  \* process_repository: the resolved detail URLs
    results,        \* process_repository: the accumulated Contract rows
    response,       \* what the handler has sent or returned
    idx,            \* process_repository: detail URLs the loop has finished
    fetched,        \* fetch_url's calls in call order: [url, ok]
    outcomes,       \* what each detail fetch returned: [ok, page]
    html,           \* parse_repository_page's html_content (event sequence)
    base_url,       \* parse_repository_page's base_url
    parser,         \* parse_repository_page's SimpleHTMLParser after feed
    filtered_urls,  \* parse_repository_page's return value
    event,          \* the parse event the parser handled last
    parser2,        \* the SimpleHTMLParser of a second run on the same input
    scan,           \* scrape_contract_detail: its loops' position and locals
    parsed          \* the records a CSV reader recovers from the report

vars == <<variant, pc, request, repo_url, contract_urls, results, response,
          idx, fetched, outcomes, html, base_url, parser, filtered_urls,
          event, parser2, scan, parsed>>

\* the variables only SpecEvents, SpecRuns, SpecDetail and SpecCsv change
aux == <<event, parser2, scan, parsed>>

Variants == {"api", "root"}

(***************************************************************************)
(* Bounds of the model.                                                    *)
(***************************************************************************)
MaxRows == 2        \* rows of a generated listing table

(***************************************************************************)
(* Python str operations used by the source.                               *)
(***************************************************************************)
Min(a, b) == IF a < b THEN a ELSE b

CharAt(s, i) == SubSeq(s, i, i)

\* t in s
Contains(s, t) ==
    \E i \in 1..(Len(s) - Len(t) + 1) : SubSeq(s, i, i + Len(t) - 1) = t

\* the lower-case letter of every upper-case ASCII letter
LowerOf ==
    [A |-> "a", B |-> "b", C |-> "c", D |-> "d", E |-> "e", F |-> "f", G |-> "g",
     H |-> "h", I |-> "i", J |-> "j", K |-> "k", L |-> "l", M |-> "m", N |-> "n",
     O |-> "o", P |-> "p", Q |-> "q", R |-> "r", S |-> "s", T |-> "t", U |-> "u",
     V |-> "v", W |-> "w", X |-> "x", Y |-> "y", Z |-> "z"]

LowerChar(c) == IF c \in DOMAIN LowerOf THEN LowerOf[c] ELSE c

\* The character-wise operations split the string in halves, which keeps
\* the evaluation shallow; the result is that of the left-to-right scan.
FirstHalf(s) == SubSeq(s, 1, Len(s) \div 2)
SecondHalf(s) == SubSeq(s, Len(s) \div 2 + 1, Len(s))

\* s.lower()
RECURSIVE Lower(_)
Lower(s) ==
    IF Len(s) = 0 THEN ""
    ELSE IF Len(s) = 1 THEN LowerChar(s)
    ELSE Lower(FirstHalf(s)) \o Lower(SecondHalf(s))

IsSpace(c) == c \in {" ", "\t", "\n", "\r", "\f"}

\* the positions of the characters of s that are not white space
NonSpace(s) == {i \in 1..Len(s) : ~IsSpace(CharAt(s, i))}

\* s.strip()
Strip(s) ==
    LET ns == NonSpace(s)
    IN  IF ns = {} THEN ""
        ELSE SubSeq(s, CHOOSE i \in ns : \A j \in ns : i <= j,
                       CHOOSE i \in ns : \A j \in ns : j <= i)

\* sep.join(row)
RECURSIVE Join(_, _)
Join(sep, row) ==
    IF Len(row) = 0 THEN ""
    ELSE IF Len(row) = 1 THEN row[1]
    ELSE row[1] \o sep \o Join(sep, Tail(row))

\* s.replace(c, '') for a one-character c
RECURSIVE RemoveChar(_, _)
RemoveChar(s, c) ==
    IF Len(s) = 0 THEN ""
    ELSE IF Len(s) = 1 THEN (IF s = c THEN "" ELSE s)
    ELSE RemoveChar(FirstHalf(s), c) \o RemoveChar(SecondHalf(s), c)

\* s.isdigit()
IsDigit(s) ==
    /\ Len(s) > 0
    /\ \A i \in 1..Len(s) : CharAt(s, i) \in {"0","1","2","3","4","5","6","7","8","9"}

\* s.count(c) for a one-character c
CountChar(s, c) == Cardinality({i \in 1..Len(s) : CharAt(s, i) = c})

\* `for x in seq: acc = Op(acc, x)`, the value of acc after the loop.  The
\* loop over seq is the loop over its first half followed by the loop over
\* its second half; mid is evaluated before the second half starts.
RECURSIVE Loop(_, _, _)
Loop(Op(_, _), acc, seq) ==
    IF Len(seq) = 0 THEN acc
    ELSE IF Len(seq) = 1 THEN Op(acc, seq[1])
    ELSE LET mid == Loop(Op, acc, FirstHalf(seq))
         IN  IF mid = mid THEN Loop(Op, mid, SecondHalf(seq)) ELSE mid

\* x in seq
InSeq(x, seq) == \E i \in 1..Len(seq) : seq[i] = x

VALID_COUNTIES ==
    {"boone", "cook", "grundy", "dupage", "kane",
     "kendall", "lake", "mchenry", "will", "various"}

VALID_STATUSES == {"active", "executed", "awarded"}

(***************************************************************************)
(* Events of html.parser, and SimpleHTMLParser.                            *)
(***************************************************************************)
StartTag(tag, attrs) == [kind |-> "start", tag |-> tag, attrs |-> attrs, data |-> ""]
EndTag(tag)          == [kind |-> "end", tag |-> tag, attrs |-> <<>>, data |-> ""]
Text(data)           == [kind |-> "data", tag |-> "", attrs |-> <<>>, data |-> data]

\* SimpleHTMLParser.__init__.  Python lists are objects: `tables` holds
\* references to table lists and a table list holds references to row
\* lists, so a list appended to another one still changes when it is
\* appended to later.  tobj[t] is the table list with reference t (a
\* sequence of row references), robj[r] the row list with reference r (a
\* sequence of cell texts); tables, current_table and current_row hold
\* references.  `= []` allocates a new list.
NewParser ==
    [tables |-> <<>>, current_table |-> 1, current_row |-> 1,
     current_cell |-> "", in_table |-> FALSE, in_row |-> FALSE,
     in_cell |-> FALSE, links |-> <<>>,
     tobj |-> << <<>> >>, robj |-> << <<>> >>]

\* the rows of the table list with reference t, as cell texts
RowsOf(p, t) == [k \in 1..Len(p.tobj[t]) |-> p.robj[p.tobj[t][k]]]

\* the value of TablesOf(parser): tables of rows of cell texts
TablesOf(p) == [k \in 1..Len(p.tables) |-> RowsOf(p, p.tables[k])]

\* the values of the attributes named href, in attribute order
RECURSIVE HrefValues(_)
HrefValues(attrs) ==
    IF Len(attrs) = 0 THEN <<>>
    ELSE (IF attrs[1][1] = "href" THEN <<attrs[1][2]>> ELSE <<>>)
         \o HrefValues(Tail(attrs))

\* mutant: an anchor's href captured whether or not a cell is open
handle_starttag_AnyAnchor(p, tag, attrs) ==
    IF tag = "table"
    THEN [p EXCEPT !.in_table = TRUE,
                   !.tobj = Append(p.tobj, <<>>),
                   !.current_table = Len(p.tobj) + 1]
    ELSE IF tag = "tr" /\ p.in_table
    THEN [p EXCEPT !.in_row = TRUE,
                   !.robj = Append(p.robj, <<>>),
                   !.current_row = Len(p.robj) + 1]
    ELSE IF tag \in {"td", "th"} /\ p.in_row
    THEN [p EXCEPT !.in_cell = TRUE, !.current_cell = ""]
    ELSE IF tag = "a"
    THEN [p EXCEPT !.links = p.links \o HrefValues(attrs)]
    ELSE p

handle_starttag(p, tag, attrs) ==
    IF tag = "table"
    THEN [p EXCEPT !.in_table = TRUE,
                   !.tobj = Append(p.tobj, <<>>),
                   !.current_table = Len(p.tobj) + 1]
    ELSE IF tag = "tr" /\ p.in_table
    THEN [p EXCEPT !.in_row = TRUE,
                   !.robj = Append(p.robj, <<>>),
                   !.current_row = Len(p.robj) + 1]
    ELSE IF tag \in {"td", "th"} /\ p.in_row
    THEN [p EXCEPT !.in_cell = TRUE, !.current_cell = ""]
    ELSE IF tag = "a" /\ p.in_cell
    THEN [p EXCEPT !.links = p.links \o HrefValues(attrs)]
    ELSE p

\* mutant: </tr> appends the row without `if self.current_row:`
handle_endtag_KeepsEmptyRow(p, tag) ==
    IF tag = "table"
    THEN [p EXCEPT !.in_table = FALSE,
                   !.tables = IF Len(p.tobj[p.current_table]) > 0
                              THEN Append(p.tables, p.current_table)
                              ELSE p.tables]
    ELSE IF tag = "tr" /\ p.in_row
    THEN [p EXCEPT !.in_row = FALSE,
                   !.tobj[p.current_table] =
                       Append(p.tobj[p.current_table], p.current_row)]
    ELSE IF tag \in {"td", "th"} /\ p.in_cell
    THEN [p EXCEPT !.in_cell = FALSE,
                   !.robj[p.current_row] =
                       Append(p.robj[p.current_row], Strip(p.current_cell))]
    ELSE p

\* mutant: </tr> ends with `self.current_row = None` (reference 0), which a
\* later </td> of a cell still open dereferences
handle_endtag_ForgetsRow(p, tag) ==
    IF tag = "table"
    THEN [p EXCEPT !.in_table = FALSE,
                   !.tables = IF Len(p.tobj[p.current_table]) > 0
                              THEN Append(p.tables, p.current_table)
                              ELSE p.tables]
    ELSE IF tag = "tr" /\ p.in_row
    THEN [p EXCEPT !.in_row = FALSE,
                   !.tobj[p.current_table] =
                       IF Len(p.robj[p.current_row]) > 0
                       THEN Append(p.tobj[p.current_table], p.current_row)
                       ELSE p.tobj[p.current_table],
                   !.current_row = 0]
    ELSE IF tag \in {"td", "th"} /\ p.in_cell /\ p.current_row # 0
    THEN [p EXCEPT !.in_cell = FALSE,
                   !.robj[p.current_row] =
                       Append(p.robj[p.current_row], Strip(p.current_cell))]
    ELSE p

handle_endtag(p, tag) ==
    IF tag = "table"
    THEN [p EXCEPT !.in_table = FALSE,
                   !.tables = IF Len(p.tobj[p.current_table]) > 0
                              THEN Append(p.tables, p.current_table)
                              ELSE p.tables]
    ELSE IF tag = "tr" /\ p.in_row
    THEN [p EXCEPT !.in_row = FALSE,
                   !.tobj[p.current_table] =
                       IF Len(p.robj[p.current_row]) > 0
                       THEN Append(p.tobj[p.current_table], p.current_row)
                       ELSE p.tobj[p.current_table]]
    ELSE IF tag \in {"td", "th"} /\ p.in_cell
    THEN [p EXCEPT !.in_cell = FALSE,
                   !.robj[p.current_row] =
                       Append(p.robj[p.current_row], Strip(p.current_cell))]
    ELSE p

handle_data(p, data) ==
    IF p.in_cell THEN [p EXCEPT !.current_cell = p.current_cell \o data] ELSE p

\* one event delivered to the handler html.parser calls for it
HandleEvent(p, e) ==
    IF e.kind = "start" THEN handle_starttag(p, e.tag, e.attrs)
    ELSE IF e.kind = "end" THEN handle_endtag(p, e.tag)
    ELSE handle_data(p, e.data)

\* parser.feed(html_content): the events in document order
Feed(p, events) == Loop(HandleEvent, p, events)


(***************************************************************************)
(* urllib.parse.urljoin, for the reference forms the listings use: an      *)
(* absolute URL, an absolute path, and a path relative to the base's       *)
(* directory (no dot segments, no query-only or fragment-only reference).  *)
(***************************************************************************)
HasScheme(u) == Contains(u, "://")

\* index of the first character after "scheme://"
AuthorityStart(u) ==
    3 + CHOOSE i \in 1..(Len(u) - 2) :
            /\ SubSeq(u, i, i + 2) = "://"
            /\ \A j \in 1..(i - 1) : SubSeq(u, j, j + 2) # "://"

\* indexes of the "/" characters of the path of u
PathSlashes(u) == {i \in AuthorityStart(u)..Len(u) : CharAt(u, i) = "/"}

\* scheme://netloc
Origin(u) ==
    IF PathSlashes(u) = {} THEN u
    ELSE SubSeq(u, 1, (CHOOSE i \in PathSlashes(u) :
                          \A j \in PathSlashes(u) : i <= j) - 1)

\* u up to and including the last "/" of its path
DirOf(u) ==
    IF PathSlashes(u) = {} THEN u \o "/"
    ELSE SubSeq(u, 1, CHOOSE i \in PathSlashes(u) :
                          \A j \in PathSlashes(u) : j <= i)

urljoin(base, link) ==
    IF HasScheme(link) THEN link
    ELSE IF Len(link) > 0 /\ CharAt(link, 1) = "/" THEN Origin(base) \o link
    ELSE DirOf(base) \o link

(***************************************************************************)
(* parse_repository_page.                                                  *)
(***************************************************************************)
has_valid_county(row_text) == \E county \in VALID_COUNTIES : Contains(row_text, county)

has_valid_status(row_text) == \E status \in VALID_STATUSES : Contains(row_text, status)

\* the rows of all tables, in the order the two nested loops visit them
RECURSIVE AllRows(_)
AllRows(tables) ==
    IF Len(tables) = 0 THEN <<>> ELSE Head(tables) \o AllRows(Tail(tables))

\* src/api/scrape.py, lines 93-98: resolve, keep the first occurrence only
ApiContractUrls(links, base) ==
    Loop(LAMBDA urls, link :
             IF Contains(link, "LbContractDetail")
                /\ ~InSeq(urljoin(base, link), urls)
             THEN Append(urls, urljoin(base, link))
             ELSE urls,
         <<>>, links)

\* mutant: contract_urls.pop() in place of contract_urls.pop(0)
ApiFilterRow_PopLast(st, row) ==
    LET row_text == Lower(Join(" ", row))
        url      == st.contract_urls[Len(st.contract_urls)]
    IN  IF Len(row) < 3 THEN st
        ELSE IF has_valid_county(row_text) /\ has_valid_status(row_text)
                /\ Len(st.contract_urls) > 0
        THEN [contract_urls |-> SubSeq(st.contract_urls, 1, Len(st.contract_urls) - 1),
              filtered_urls |-> IF ~InSeq(url, st.filtered_urls)
                                THEN Append(st.filtered_urls, url)
                                ELSE st.filtered_urls]
        ELSE st

\* src/api/scrape.py, lines 104-117: the body of `for row in table`, on the
\* two lists it changes
ApiFilterRow(st, row) ==
    LET row_text == Lower(Join(" ", row))
        url      == Head(st.contract_urls)
    IN  IF Len(row) < 3 THEN st
        ELSE IF has_valid_county(row_text) /\ has_valid_status(row_text)
                /\ Len(st.contract_urls) > 0
        THEN [contract_urls |-> Tail(st.contract_urls),
              filtered_urls |-> IF ~InSeq(url, st.filtered_urls)
                                THEN Append(st.filtered_urls, url)
                                ELSE st.filtered_urls]
        ELSE st

parse_repository_page_api(html_content, base) ==
    LET p == Feed(NewParser, html_content)
    IN  Loop(ApiFilterRow,
             [contract_urls |-> ApiContractUrls(p.links, base),
              filtered_urls |-> <<>>],
             AllRows(TablesOf(p))).filtered_urls

\* src/scrape.py, lines 145-149: every marker link, resolved
RootContractUrls(links, base) ==
    Loop(LAMBDA urls, link :
             IF Contains(link, "LbContractDetail")
             THEN Append(urls, urljoin(base, link))
             ELSE urls,
         <<>>, links)

\* src/scrape.py: the list `contracts` built from the matching rows (lines
\* 112-141) is never read; the return value is contract_urls alone.
parse_repository_page_root(html_content, base) ==
    LET p == Feed(NewParser, html_content)
    IN  RootContractUrls(p.links, base)

parse_repository_page(v, html_content, base) ==
    IF v = "api" THEN parse_repository_page_api(html_content, base)
    ELSE parse_repository_page_root(html_content, base)

(***************************************************************************)
(* Listing pages: one table of up to MaxRows rows.  A row is a sequence of *)
(* cell texts; its first cell holds the row's anchors.  Every page also    *)
(* has an anchor with a marker href before the table, outside any cell,    *)
(* and its table, unless empty, starts with a header row whose first cell *)
(* holds an anchor without the marker.                                     *)
(***************************************************************************)
SeqsUpTo(S, n) == UNION {[1..k -> S] : k \in 0..n}

BaseUrls == {"http://h/a/list"}

Hrefs ==
    {"LbContractDetail/1", "/a/LbContractDetail/1", "http://h/a/LbContractDetail/1",
     "LbContractDetail/2"}

RowTexts ==
    {<<"62A01", " Cook\n", "Awarded">>,     \* county and status, 3 cells
     <<"Cook 62A02", "Awarded">>,           \* county and status, 2 cells
     <<"62A03", "Peoria", "Executed">>,     \* status only
     <<"62A04", "WILL", "Pending">>}        \* county only

RowKinds == {[texts |-> t, hrefs |-> h] : t \in RowTexts, h \in SeqsUpTo(Hrefs, 1)}

Anchor(href) == <<StartTag("a", <<<<"class", "lnk">>, <<"href", href>>>>),
                  Text("view"), EndTag("a")>>

RECURSIVE Anchors(_)
Anchors(hrefs) ==
    IF Len(hrefs) = 0 THEN <<>> ELSE Anchor(Head(hrefs)) \o Anchors(Tail(hrefs))

RECURSIVE Cells(_)
Cells(texts) ==
    IF Len(texts) = 0 THEN <<>>
    ELSE <<StartTag("td", <<>>), Text(Head(texts)), EndTag("td")>> \o Cells(Tail(texts))

RowEvents(r) ==
    <<StartTag("tr", <<>>), StartTag("td", <<>>)>> \o Anchors(r.hrefs)
    \o <<Text(Head(r.texts)), EndTag("td")>> \o Cells(Tail(r.texts))
    \o <<EndTag("tr")>>

RECURSIVE RowsEvents(_)
RowsEvents(rows) ==
    IF Len(rows) = 0 THEN <<>> ELSE RowEvents(Head(rows)) \o RowsEvents(Tail(rows))

HeaderRow ==
    <<StartTag("tr", <<>>), StartTag("th", <<>>)>> \o Anchor("about.html")
    \o <<Text("Contract"), EndTag("th"), StartTag("th", <<>>), Text("County"),
         EndTag("th"), StartTag("th", <<>>), Text("Status"), EndTag("th"),
         EndTag("tr")>>

ListingDoc(rows) ==
    Anchor("LbContractDetail/9") \o <<StartTag("table", <<>>)>>
    \o (IF Len(rows) = 0 THEN <<>> ELSE HeaderRow \o RowsEvents(rows))
    \o <<EndTag("table")>>

Listings == {ListingDoc(rows) : rows \in SeqsUpTo(RowKinds, MaxRows)}

(***************************************************************************)
(* scrape_contract_detail.  The three local variables are the fields of    *)
(* the record `f`.                                                         *)
(***************************************************************************)
\* not cell.replace('.','').replace(',','').replace('$','').replace(' ','').isdigit()
IsNotNumeric(cell) ==
    ~IsDigit(RemoveChar(RemoveChar(RemoveChar(RemoveChar(cell, "."), ","), "$"), " "))

\* lines 137-140 (api), 177-181 (root): one cell of the low-bid row
LowBidCell(f, cell) ==
    IF Contains(cell, "$")
    THEN [f EXCEPT !.low_bid_amount = Strip(cell)]
    ELSE IF Len(cell) > 10 /\ IsNotNumeric(cell)
    THEN [f EXCEPT !.low_bidder = Strip(cell)]
    ELSE f

\* mutant: the row after it without the `not low_bid_amount` and
\* `not low_bidder` tests
NextRowCell_Overwrites(f, cell) ==
    IF Contains(cell, "$")
    THEN [f EXCEPT !.low_bid_amount = Strip(cell)]
    ELSE IF Len(cell) > 10
    THEN [f EXCEPT !.low_bidder = Strip(cell)]
    ELSE f

\* lines 145-148 (api), 187-190 (root): one cell of the row after it
NextRowCell(f, cell) ==
    IF Contains(cell, "$") /\ f.low_bid_amount = ""
    THEN [f EXCEPT !.low_bid_amount = Strip(cell)]
    ELSE IF Len(cell) > 10 /\ f.low_bidder = ""
    THEN [f EXCEPT !.low_bidder = Strip(cell)]
    ELSE f

\* lines 152-153 (api), 195-196 (root): one cell of an awardee row
AwardCell(f, cell) ==
    IF Len(cell) > 10 /\ IsNotNumeric(cell)
    THEN [f EXCEPT !.awardee = Strip(cell)]
    ELSE f

\* the body of `for i, row in enumerate(table)` for row i (1-based)
ScanRow(table, f, i) ==
    LET row      == table[i]
        row_text == Lower(Join(" ", row))
        f1 == IF Contains(row_text, "low bid") \/ Contains(row_text, "lowest bid")
              THEN LET g == Loop(LowBidCell, f, row)
                   IN  IF i + 1 <= Len(table)
                       THEN Loop(NextRowCell, g, table[i + 1])
                       ELSE g
              ELSE f
    IN  IF Contains(row_text, "award") /\ Contains(row_text, "awardee")
        THEN Loop(AwardCell, f1, row)
        ELSE f1

\* the body of `for table in TablesOf(parser)`
ScanTable(f, table) ==
    Loop(LAMBDA g, i : ScanRow(table, g, i), f, [i \in 1..Len(table) |-> i])

\* mutant: the field returned as extracted, without the sentinel
OrNotFound_Raw(x) == x

\* x or 'Not Found'
OrNotFound(x) == IF x = "" THEN "Not Found" ELSE x

scrape_contract_detail(html_content) ==
    LET p == Feed(NewParser, html_content)
        f == Loop(ScanTable,
                  [low_bidder |-> "", low_bid_amount |-> "", awardee |-> ""],
                  TablesOf(p))
    IN  [low_bidder     |-> OrNotFound(f.low_bidder),
         low_bid_amount |-> OrNotFound(f.low_bid_amount),
         awardee        |-> OrNotFound(f.awardee)]

(***************************************************************************)
(* Detail pages: tables of rows of cell texts.                             *)
(***************************************************************************)
RECURSIVE TableEvents(_)
TableEvents(rows) ==
    IF Len(rows) = 0 THEN <<>>
    ELSE <<StartTag("tr", <<>>)>> \o Cells(Head(rows)) \o <<EndTag("tr")>>
         \o TableEvents(Tail(rows))

DetailDoc(rows) ==
    <<StartTag("table", <<>>)>> \o TableEvents(rows) \o <<EndTag("table")>>

DetailTables ==
    {<<<<"Low Bid", "Acme Construction Co", "$1,234,567.89">>>>,
     <<<<"Item", "Value">>, <<"Letting", "2024-01-19">>>>,
     <<<<"Low Bid">>, <<"Acme\nConstruction Co", "$5.00">>>>,
     <<<<"Awardee", "Joe \"Digger\" Smith, LLC">>>>}

Details == {DetailDoc(rows) : rows \in DetailTables}

(***************************************************************************)
(* fetch_url.  What urlopen (or decode) raised is a record: the exception  *)
(* class, str(e), and for HTTPError and URLError the code and reason.      *)
(***************************************************************************)
Causes ==
    {[kind |-> "HTTPError", str |-> "HTTP Error 404: Not Found",
      code |-> "404", reason |-> "Not Found"],
     [kind |-> "URLError", str |-> "<urlopen error timed out>",
      code |-> "", reason |-> "timed out"],
     [kind |-> "UnicodeDecodeError", str |-> "invalid start byte",
      code |-> "", reason |-> ""]}

\* str() of the exception fetch_url raises
fetch_url_error(v, url, e) ==
    IF v = "api" THEN "Failed to fetch " \o url \o ": " \o e.str
    ELSE IF e.kind = "HTTPError" THEN "HTTP Error " \o e.code \o ": " \o e.reason
    ELSE IF e.kind = "URLError" THEN "URL Error: " \o e.reason
    ELSE "Fetch Error: " \o e.str

\* str() of the exception process_repository lets out when the listing
\* fetch raised
listing_error(v, url, e) ==
    IF v = "api" THEN fetch_url_error(v, url, e)
    ELSE "Failed to fetch repository page: " \o fetch_url_error(v, url, e)

no_contracts_error(v) ==
    IF v = "api"
    THEN "No matching contracts found. Check the URL and filter criteria."
    ELSE "No matching contracts found. Please check the URL and filter criteria."

(***************************************************************************)
(* csv.DictWriter with the default (excel) dialect on a StringIO.          *)
(***************************************************************************)
NeedsQuotes(s) ==
    \E i \in 1..Len(s) : CharAt(s, i) \in {",", "\"", "\r", "\n"}

\* mutant: a quote inside a quoted field written as it is
DoubleQuotes_Single(s) == s

RECURSIVE DoubleQuotes(_)
DoubleQuotes(s) ==
    IF Len(s) = 0 THEN ""
    ELSE IF Len(s) = 1 THEN (IF s = "\"" THEN "\"\"" ELSE s)
    ELSE DoubleQuotes(FirstHalf(s)) \o DoubleQuotes(SecondHalf(s))

CsvField(s) == IF NeedsQuotes(s) THEN "\"" \o DoubleQuotes(s) \o "\"" ELSE s

CsvLine(fields) ==
    Join(",", [i \in 1..Len(fields) |-> CsvField(fields[i])]) \o "\r\n"

fieldnames == <<"contract_url", "low_bidder", "low_bid_amount", "awardee">>

RECURSIVE CsvRows(_)
CsvRows(rows) ==
    IF Len(rows) = 0 THEN ""
    ELSE CsvLine([i \in 1..Len(fieldnames) |-> Head(rows)[fieldnames[i]]])
         \o CsvRows(Tail(rows))

\* writer.writeheader(); writer.writerows(results); output.getvalue()
to_csv(rows) == CsvLine(fieldnames) \o CsvRows(rows)

(***************************************************************************)
(* The rows process_repository appends, and the handler's responses.       *)
(***************************************************************************)
data_row(url, page) ==
    LET data == scrape_contract_detail(page)
    IN  [contract_url |-> url, low_bidder |-> data.low_bidder,
         low_bid_amount |-> data.low_bid_amount, awardee |-> data.awardee]

error_row(url, msg) ==
    [contract_url |-> url, low_bidder |-> "ERROR: " \o msg,
     low_bid_amount |-> "", awardee |-> ""]

success_message(csv_content) ==
    "Successfully scraped " \o ToString(CountChar(csv_content, "\n") - 1)
    \o " contracts"

(***************************************************************************)
(* Values of the variables a specification does not use.                   *)
(***************************************************************************)
NoRequest == [method |-> "", json_ok |-> FALSE, has_url |-> FALSE, repo_url |-> ""]

NoResponse ==
    [statusCode |-> 0, has_body |-> FALSE, success |-> FALSE, error |-> "",
     csv |-> "", message |-> ""]

NoEvent == [kind |-> "none", tag |-> "", attrs |-> <<>>, data |-> ""]

NoScan == [phase |-> "none"]

AuxInit ==
    /\ event = NoEvent
    /\ parser2 = NewParser
    /\ scan = NoScan
    /\ parsed = <<>>

(***************************************************************************)
(* SpecParse: parse_repository_page applied to every generated listing.    *)
(***************************************************************************)
InitParse ==
    /\ variant \in Variants
    /\ pc = "parse"
    /\ html \in Listings
    /\ base_url \in BaseUrls
    /\ parser = NewParser
    /\ filtered_urls = <<>>
    /\ request = NoRequest
    /\ repo_url = ""
    /\ contract_urls = <<>>
    /\ results = <<>>
    /\ response = NoResponse
    /\ idx = 0
    /\ fetched = <<>>
    /\ outcomes = <<>>
    /\ AuxInit

ParseListing ==
    /\ pc = "parse"
    /\ parser' = Feed(NewParser, html)
    /\ filtered_urls' = parse_repository_page(variant, html, base_url)
    /\ pc' = "parsed"
    /\ UNCHANGED <<variant, request, repo_url, contract_urls, results, response,
                   idx, fetched, outcomes, html, base_url, aux>>

NextParse == ParseListing

SpecParse == InitParse /\ [][NextParse]_vars

(***************************************************************************)
(* Spec: one deployed variant serving requests one after the other.        *)
(* handler -> process_repository -> fetch_url; every fetch is an action    *)
(* whose outcome (a page, or an exception) the network chooses.            *)
(***************************************************************************)
Methods == {"OPTIONS", "POST", "GET"}

\* the request body: whether json.loads accepts it, and its repo_url key
Bodies ==
    {[json_ok |-> FALSE, has_url |-> FALSE, repo_url |-> ""],
     [json_ok |-> TRUE, has_url |-> FALSE, repo_url |-> ""],
     [json_ok |-> TRUE, has_url |-> TRUE, repo_url |-> ""],
     [json_ok |-> TRUE, has_url |-> TRUE, repo_url |-> " \t"],
     [json_ok |-> TRUE, has_url |-> TRUE, repo_url |-> " http://h/a/list\n"]}

Requests ==
    {[method |-> m, json_ok |-> b.json_ok, has_url |-> b.has_url,
      repo_url |-> b.repo_url] : m \in Methods, b \in Bodies}

\* The status line of each outcome.  src/api/scrape.py returns it with the
\* body.  src/scrape.py sends 200 first thing in do_POST and in do_OPTIONS;
\* it defines no other do_<METHOD>, for which BaseHTTPRequestHandler answers
\* 501.
handler_status(v, outcome) ==
    IF v = "api"
    THEN CASE outcome = "preflight"   -> 200
           [] outcome = "method"      -> 405
           [] outcome = "bad_request" -> 400
           [] outcome = "fatal"       -> 500
           [] outcome = "success"     -> 200
    ELSE CASE outcome = "method" -> 501
           [] OTHER              -> 200

\* the error text for a method the handler does not serve
method_error(v, m) ==
    IF v = "api" THEN "Method not allowed"
    ELSE "Unsupported method ('" \o m \o "')"

PreflightResponse(v) ==
    [NoResponse EXCEPT !.statusCode = handler_status(v, "preflight")]

ErrorResponse(v, outcome, msg) ==
    [NoResponse EXCEPT !.statusCode = handler_status(v, outcome),
                       !.has_body = TRUE, !.error = msg]

SuccessResponse(v, csv_content) ==
    [NoResponse EXCEPT !.statusCode = handler_status(v, "success"),
                       !.has_body = TRUE, !.success = TRUE,
                       !.csv = csv_content,
                       !.message = success_message(csv_content)]

\* mutant: the value used without .strip()
requested_url_NoStrip(req) == IF req.has_url THEN req.repo_url ELSE ""

\* data.get('repo_url', '').strip()
requested_url(req) == Strip(IF req.has_url THEN req.repo_url ELSE "")

Init ==
    /\ variant \in Variants
    /\ pc = "idle"
    /\ request = NoRequest
    /\ repo_url = ""
    /\ contract_urls = <<>>
    /\ results = <<>>
    /\ response = NoResponse
    /\ idx = 0
    /\ fetched = <<>>
    /\ outcomes = <<>>
    /\ html = <<>>
    /\ base_url = ""
    /\ parser = NewParser
    /\ filtered_urls = <<>>
    /\ AuxInit

unused == <<html, base_url, parser, filtered_urls, aux>>

\* a request arrives; nothing of the previous request is kept
Receive ==
    /\ pc \in {"idle", "done"}
    /\ request' \in Requests
    /\ pc' = "handler"
    /\ repo_url' = ""
    /\ contract_urls' = <<>>
    /\ results' = <<>>
    /\ response' = NoResponse
    /\ idx' = 0
    /\ fetched' = <<>>
    /\ outcomes' = <<>>
    /\ UNCHANGED <<variant, unused>>

\* handler, OPTIONS
HandlePreflight ==
    /\ pc = "handler"
    /\ request.method = "OPTIONS"
    /\ response' = PreflightResponse(variant)
    /\ pc' = "done"
    /\ UNCHANGED <<variant, request, repo_url, contract_urls, results, idx,
                   fetched, outcomes, unused>>

\* handler, neither OPTIONS nor POST
HandleOtherMethod ==
    /\ pc = "handler"
    /\ request.method \notin {"OPTIONS", "POST"}
    /\ response' = ErrorResponse(variant, "method",
                                 method_error(variant, request.method))
    /\ pc' = "done"
    /\ UNCHANGED <<variant, request, repo_url, contract_urls, results, idx,
                   fetched, outcomes, unused>>

\* handler, POST whose body json.loads rejects
HandleBadJson ==
    /\ pc = "handler"
    /\ request.method = "POST"
    /\ ~request.json_ok
    /\ response' = ErrorResponse(variant, "fatal",
                                 "Expecting value: line 1 column 1 (char 0)")
    /\ pc' = "done"
    /\ UNCHANGED <<variant, request, repo_url, contract_urls, results, idx,
                   fetched, outcomes, unused>>

\* handler, POST without a repository URL
HandleNoUrl ==
    /\ pc = "handler"
    /\ request.method = "POST"
    /\ request.json_ok
    /\ requested_url(request) = ""
    /\ response' = ErrorResponse(variant, "bad_request", "No repository URL provided")
    /\ pc' = "done"
    /\ UNCHANGED <<variant, request, repo_url, contract_urls, results, idx,
                   fetched, outcomes, unused>>

\* handler, POST with a repository URL: process_repository(repo_url) starts
HandlePost ==
    /\ pc = "handler"
    /\ request.method = "POST"
    /\ request.json_ok
    /\ requested_url(request) # ""
    /\ repo_url' = requested_url(request)
    /\ results' = <<>>
    /\ pc' = "fetch_listing"
    /\ UNCHANGED <<variant, request, contract_urls, response, idx, fetched,
                   outcomes, unused>>

\* mutant: the listing fetch's exception swallowed, the page taken as empty
FetchListingFails_Swallowed ==
    /\ pc = "fetch_listing"
    /\ fetched' = Append(fetched, [url |-> repo_url, ok |-> FALSE])
    /\ pc' = "serialize"
    /\ UNCHANGED <<variant, request, repo_url, contract_urls, results, response,
                   idx, outcomes, unused>>

\* process_repository: fetch_url(repo_url) raises; the handler's except
\* clause answers
FetchListingFails ==
    /\ pc = "fetch_listing"
    /\ \E e \in Causes :
           response' = ErrorResponse(variant, "fatal",
                                     listing_error(variant, repo_url, e))
    /\ fetched' = Append(fetched, [url |-> repo_url, ok |-> FALSE])
    /\ pc' = "done"
    /\ UNCHANGED <<variant, request, repo_url, contract_urls, results, idx,
                   outcomes, unused>>

\* mutant: no `if not contract_urls: raise`
FetchListingReturns_NoCheck ==
    /\ pc = "fetch_listing"
    /\ \E page \in Listings :
           LET urls == parse_repository_page(variant, page, repo_url)
           IN  /\ contract_urls' = urls
               /\ pc' = IF Len(urls) = 0 THEN "serialize" ELSE "detail"
    /\ fetched' = Append(fetched, [url |-> repo_url, ok |-> TRUE])
    /\ idx' = 0
    /\ UNCHANGED <<variant, request, repo_url, results, response, outcomes, unused>>

\* process_repository: fetch_url(repo_url) returns a page;
\* parse_repository_page; an empty list raises
FetchListingReturns ==
    /\ pc = "fetch_listing"
    /\ \E page \in Listings :
           \E urls \in {parse_repository_page(variant, page, repo_url)} :
               IF Len(urls) = 0
               THEN /\ response' = ErrorResponse(variant, "fatal",
                                                 no_contracts_error(variant))
                    /\ pc' = "done"
                    /\ UNCHANGED contract_urls
               ELSE /\ contract_urls' = urls
                    /\ pc' = "detail"
                    /\ UNCHANGED response
    /\ fetched' = Append(fetched, [url |-> repo_url, ok |-> TRUE])
    /\ idx' = 0
    /\ UNCHANGED <<variant, request, repo_url, results, outcomes, unused>>

\* where the loop goes after one more URL
after_url(n) == IF n = Len(contract_urls) THEN "serialize" ELSE "detail"

\* mutant: the except clause records nothing and the loop goes on
DetailFails_DropsRow ==
    /\ pc = "detail"
    /\ fetched' = Append(fetched, [url |-> contract_urls[idx + 1], ok |-> FALSE])
    /\ outcomes' = Append(outcomes, [ok |-> FALSE, page |-> <<>>])
    /\ idx' = idx + 1
    /\ pc' = after_url(idx + 1)
    /\ UNCHANGED <<variant, request, repo_url, contract_urls, results, response,
                   unused>>

\* one iteration of the loop, fetch_url(contract_url) raising
DetailFails ==
    /\ pc = "detail"
    /\ LET contract_url == contract_urls[idx + 1]
       IN  /\ \E e \in Causes :
                  results' = Append(results,
                      error_row(contract_url,
                                fetch_url_error(variant, contract_url, e)))
           /\ fetched' = Append(fetched, [url |-> contract_url, ok |-> FALSE])
    /\ outcomes' = Append(outcomes, [ok |-> FALSE, page |-> <<>>])
    /\ idx' = idx + 1
    /\ pc' = after_url(idx + 1)
    /\ UNCHANGED <<variant, request, repo_url, contract_urls, response, unused>>

\* one iteration of the loop, fetch_url(contract_url) returning a page
DetailReturns ==
    /\ pc = "detail"
    /\ LET contract_url == contract_urls[idx + 1]
       IN  /\ \E page \in Details :
                  /\ results' = Append(results, data_row(contract_url, page))
                  /\ outcomes' = Append(outcomes, [ok |-> TRUE, page |-> page])
           /\ fetched' = Append(fetched, [url |-> contract_url, ok |-> TRUE])
    /\ idx' = idx + 1
    /\ pc' = after_url(idx + 1)
    /\ UNCHANGED <<variant, request, repo_url, contract_urls, response, unused>>

\* process_repository returns the CSV; the handler answers with it
Respond ==
    /\ pc = "serialize"
    /\ response' = SuccessResponse(variant, to_csv(results))
    /\ pc' = "done"
    /\ UNCHANGED <<variant, request, repo_url, contract_urls, results, idx,
                   fetched, outcomes, unused>>

Next ==
    \/ Receive
    \/ HandlePreflight
    \/ HandleOtherMethod
    \/ HandleBadJson
    \/ HandleNoUrl
    \/ HandlePost
    \/ FetchListingFails
    \/ FetchListingReturns
    \/ DetailFails
    \/ DetailReturns
    \/ Respond

Spec == Init /\ [][Next]_vars

(***************************************************************************)
(* What the claims about parse_repository_page speak of, read off the      *)
(* parser's output for the page in `html` (tables and links of `parser`).  *)
(***************************************************************************)
\* a row with at least 3 cells naming a county term and a status term
IsMatchingRow(row) ==
    /\ Len(row) >= 3
    /\ LET text == Lower(Join(" ", row))
       IN  /\ \E c \in VALID_COUNTIES : Contains(text, c)
           /\ \E st \in VALID_STATUSES : Contains(text, st)

\* the matching rows of the extracted tables, as <<table, row>> positions
MatchingRows ==
    {tr \in UNION {{<<t, r>> : r \in 1..Len(TablesOf(parser)[t])} :
                      t \in 1..Len(TablesOf(parser))} :
        IsMatchingRow(TablesOf(parser)[tr[1]][tr[2]])}

\* the positions in links of the hrefs containing the marker
MarkerPositions ==
    {i \in 1..Len(parser.links) : Contains(parser.links[i], "LbContractDetail")}

ResolvedAt(i) == urljoin(base_url, parser.links[i])

DistinctResolved == {ResolvedAt(i) : i \in MarkerPositions}

\* position of the first marker link resolving to u
FirstSeen(u) ==
    CHOOSE i \in MarkerPositions :
        /\ ResolvedAt(i) = u
        /\ \A j \in MarkerPositions : ResolvedAt(j) = u => i <= j

NoDuplicates(seq) == \A i, j \in 1..Len(seq) : i # j => seq[i] # seq[j]

\* seq[k] is the k-th distinct resolved URL in first-seen link order
IsQueuePrefix(seq) ==
    \A k \in 1..Len(seq) :
        /\ seq[k] \in DistinctResolved
        /\ Cardinality({u \in DistinctResolved : FirstSeen(u) < FirstSeen(seq[k])})
               = k - 1

\* the URLs of seq are resolved marker links, in strictly increasing
\* first-seen position
InFirstSeenOrder(seq) ==
    /\ \A k \in 1..Len(seq) : seq[k] \in DistinctResolved
    /\ \A i, j \in 1..Len(seq) :
           i < j => FirstSeen(seq[i]) < FirstSeen(seq[j])

\* C1 as stated: src/api/scrape.py, N matching rows and M >= N marker hrefs:
\* exactly min(N, M) URLs come back, without duplicates, the k-th being the
\* k-th URL of the de-duplicated link queue.
C1_AsStated ==
    (pc = "parsed" /\ variant = "api"
        /\ Cardinality(MarkerPositions) >= Cardinality(MatchingRows))
    => /\ Len(filtered_urls)
            = Min(Cardinality(MatchingRows), Cardinality(MarkerPositions))
       /\ NoDuplicates(filtered_urls)
       /\ IsQueuePrefix(filtered_urls)

\* C1 amended: src/api/scrape.py, N matching rows and M >= N marker hrefs
\* resolving to D distinct URLs: exactly min(N, D) URLs come back, without
\* duplicates, the k-th being the k-th URL of the de-duplicated link queue.
C1_QueuePrefix ==
    (pc = "parsed" /\ variant = "api"
        /\ Cardinality(MarkerPositions) >= Cardinality(MatchingRows))
    => /\ Len(filtered_urls)
            = Min(Cardinality(MatchingRows), Cardinality(DistinctResolved))
       /\ NoDuplicates(filtered_urls)
       /\ IsQueuePrefix(filtered_urls)

\* two matching rows, two distinct marker URLs, both returned
C1_Witness ==
    /\ pc = "parsed" /\ variant = "api"
    /\ Cardinality(MatchingRows) = 2
    /\ Cardinality(MarkerPositions) = 2
    /\ Cardinality(DistinctResolved) = 2
    /\ Len(filtered_urls) = 2

\* C4 as stated: in both variants the returned list is never longer than the
\* number of matching rows (so it is empty when no row matches).
C4_AsStated ==
    pc = "parsed" => Len(filtered_urls) <= Cardinality(MatchingRows)

\* C7 as stated: in both variants the returned list holds no URL twice and
\* lists the URLs in the first-seen order of their links.
C7_AsStated ==
    pc = "parsed" => NoDuplicates(filtered_urls) /\ InFirstSeenOrder(filtered_urls)

(***************************************************************************)
(* What the claims about process_repository and handler speak of.          *)
(***************************************************************************)
StartsWith(s, t) == Len(s) >= Len(t) /\ SubSeq(s, 1, Len(t)) = t

\* a response whose body is {error: <text>}
IsErrorResponse(r) == r.has_body /\ ~r.success /\ r.error # "" /\ r.csv = ""

\* the body names no repository URL: no repo_url key, or only white space
NamesNoUrl(req) ==
    \/ ~req.has_url
    \/ \A i \in 1..Len(req.repo_url) : IsSpace(CharAt(req.repo_url, i))

ListingFetchFailed == Len(fetched) >= 1 /\ ~fetched[1].ok

ListingFetched == Len(fetched) >= 1 /\ fetched[1].ok

\* the trimmed cell texts of a page
CellTexts(page) ==
    LET t == TablesOf(Feed(NewParser, page))
    IN  UNION {UNION {{t[i][j][k] : k \in 1..Len(t[i][j])} : j \in 1..Len(t[i])} :
                  i \in 1..Len(t)}

\* C2: with K > 0 resolved URLs the loop appends one row per URL, row k
\* carrying URL k, whatever fetches fail; a failed fetch gives a row with
\* low_bidder "ERROR:..." and empty low_bid_amount and awardee; the row of a
\* fetched page is the one extracted from that page alone; the finished
\* report has exactly K rows.
C2_OneRowPerUrl ==
    Len(contract_urls) > 0
    => /\ Len(results) = idx
       /\ Len(outcomes) = idx
       /\ idx <= Len(contract_urls)
       /\ pc \in {"serialize", "done"} => Len(results) = Len(contract_urls)
       /\ pc = "done" => response.success /\ response.csv # ""
       /\ \A k \in 1..Len(results) :
              /\ results[k].contract_url = contract_urls[k]
              /\ ~outcomes[k].ok =>
                     /\ StartsWith(results[k].low_bidder, "ERROR:")
                     /\ results[k].low_bid_amount = ""
                     /\ results[k].awardee = ""
              /\ outcomes[k].ok =>
                     results[k] = data_row(contract_urls[k], outcomes[k].page)

\* two URLs, the first fetch failed, the second returned, report delivered
C2_Witness ==
    /\ pc = "done" /\ response.success
    /\ Len(contract_urls) = 2 /\ Len(results) = 2
    /\ ~outcomes[1].ok /\ outcomes[2].ok
    /\ results[2].low_bidder = "Acme Construction Co"

\* C3: when the listing fetch fails the operation is over with one error
\* response naming the failed fetch: no detail fetch, no row, no CSV, no
\* success response.
C3_ListingFailureIsFatal ==
    ListingFetchFailed
    => /\ pc = "done"
       /\ Len(fetched) = 1
       /\ results = <<>>
       /\ outcomes = <<>>
       /\ IsErrorResponse(response)
       /\ Contains(response.error, "Failed to fetch")

C3_Witness ==
    /\ ListingFetchFailed /\ pc = "done"
    /\ fetched[1].url = "http://h/a/list"
    /\ response.error # ""

\* C5: when the listing was fetched and no URL was resolved the operation
\* is over with the "no matching contracts" error: no detail fetch, no CSV.
C5_EmptyListIsFatal ==
    (ListingFetched /\ Len(contract_urls) = 0)
    => /\ pc = "done"
       /\ Len(fetched) = 1
       /\ results = <<>>
       /\ IsErrorResponse(response)
       /\ Contains(response.error, "No matching contracts found")

C5_Witness ==
    /\ ListingFetched /\ Len(contract_urls) = 0 /\ pc = "done"
    /\ Contains(response.error, "No matching contracts found")

\* C6 as stated: in every data row of every emitted report none of
\* low_bidder, low_bid_amount and awardee is empty.
C6_AsStated ==
    (pc = "done" /\ response.success)
    => \A k \in 1..Len(results) :
           /\ results[k].low_bidder # ""
           /\ results[k].low_bid_amount # ""
           /\ results[k].awardee # ""

\* C6 amended: in every data row made from a detail page that was fetched,
\* none of the three fields is empty: each is a cell text of that page or the
\* sentinel "Not Found".  (The row of a failed fetch has a non-empty
\* low_bidder.)
C6_NoEmptyFieldInFetchedRows ==
    \A k \in 1..Len(results) :
        IF outcomes[k].ok
        THEN \A name \in {"low_bidder", "low_bid_amount", "awardee"} :
                 /\ results[k][name] # ""
                 /\ results[k][name] \in CellTexts(outcomes[k].page) \cup {"Not Found"}
        ELSE results[k].low_bidder # ""

\* a delivered report with a row whose three fields are all the sentinel
C6_Witness ==
    /\ pc = "done" /\ response.success
    /\ \E k \in 1..Len(results) :
           /\ outcomes[k].ok
           /\ results[k].low_bidder = "Not Found"
           /\ results[k].low_bid_amount = "Not Found"
           /\ results[k].awardee = "Not Found"

\* C8: a POST whose JSON body names no repository URL (no repo_url, an
\* empty one, or white space only) ends with an error response, and
\* fetch_url is never called for it.
C8_NoUrlNoFetch ==
    (request.method = "POST" /\ request.json_ok /\ NamesNoUrl(request)
        /\ pc # "handler")
    => /\ pc = "done"
       /\ fetched = <<>>
       /\ IsErrorResponse(response)
       /\ response.error = "No repository URL provided"

\* the white-space-only URL, answered
C8_Witness ==
    /\ request.method = "POST" /\ request.json_ok /\ request.has_url
    /\ request.repo_url = " \t"
    /\ pc = "done"
    /\ IsErrorResponse(response)

\* C9 as stated: in both variants the status tells the outcomes apart:
\* preflight a success status and no body, another method 405, a POST
\* without URL 400, a POST failing at the listing level 500, and no failure
\* response has the status of a successful scrape (200).
C9_AsStated ==
    pc = "done"
    => /\ request.method = "OPTIONS" =>
              response.statusCode = 200 /\ ~response.has_body
       /\ request.method \notin {"OPTIONS", "POST"} => response.statusCode = 405
       /\ (request.method = "POST" /\ request.json_ok /\ NamesNoUrl(request)) =>
              response.statusCode = 400
       /\ (request.method = "POST" /\ Len(fetched) >= 1 /\ ~response.success) =>
              response.statusCode = 500
       /\ IsErrorResponse(response) => response.statusCode # 200

\* C10 as stated: the count in the message of a success response is the
\* number of data rows.
C10_AsStated ==
    (pc = "done" /\ response.success)
    => response.message
           = "Successfully scraped " \o ToString(Len(results)) \o " contracts"


(***************************************************************************)
(* SpecEvents: one SimpleHTMLParser fed any sequence of at most MaxEvents  *)
(* parse events, one handler call per step.  Nothing pairs a start tag     *)
(* with an end tag, so unclosed tags, stray end tags and mismatched        *)
(* nesting are all among the sequences.  The class is the same in both     *)
(* source files.  idx counts the events handled.                           *)
(***************************************************************************)
MaxEvents == 8

EventAlphabet ==
    {StartTag("table", <<>>), StartTag("tr", <<>>), StartTag("td", <<>>),
     StartTag("a", <<<<"href", "u">>>>), StartTag("a", <<<<"href", "v">>>>),
     StartTag("a", <<<<"name", "n">>>>),
     EndTag("table"), EndTag("tr"), EndTag("td"), Text("x")}

InitEvents ==
    /\ variant = "api"
    /\ pc = "feed"
    /\ parser = NewParser
    /\ idx = 0
    /\ html = <<>>
    /\ base_url = ""
    /\ filtered_urls = <<>>
    /\ request = NoRequest
    /\ repo_url = ""
    /\ contract_urls = <<>>
    /\ results = <<>>
    /\ response = NoResponse
    /\ fetched = <<>>
    /\ outcomes = <<>>
    /\ AuxInit

\* HTMLParser.feed delivers the next event to its handler
FeedEvent ==
    /\ pc = "feed"
    /\ idx < MaxEvents
    /\ \E e \in EventAlphabet :
           /\ event' = e
           /\ parser' = HandleEvent(parser, e)
    /\ idx' = idx + 1
    /\ UNCHANGED <<variant, pc, request, repo_url, contract_urls, results,
                   response, fetched, outcomes, html, base_url, filtered_urls,
                   parser2, scan, parsed>>

\* the input is exhausted: feed returns, tables and links are read
FeedReturns ==
    /\ pc = "feed"
    /\ pc' = "fed"
    /\ UNCHANGED <<variant, request, repo_url, contract_urls, results, response,
                   idx, fetched, outcomes, html, base_url, parser,
                   filtered_urls, aux>>

NextEvents == FeedEvent \/ FeedReturns

SpecEvents == InitEvents /\ [][NextEvents]_vars /\ WF_vars(NextEvents)

(***************************************************************************)
(* SpecNested: one SimpleHTMLParser fed a whole document with nested       *)
(* tables.  A document is an outer table whose first row is the cell "o1", *)
(* followed by at most MaxNested rows; a row is a plain row or a row whose *)
(* only cell holds an inner table.  Every table's first text is its label. *)
(***************************************************************************)
MaxNested == 3

PlainRow(text) ==
    <<StartTag("tr", <<>>), StartTag("td", <<>>), Text(text), EndTag("td"),
      EndTag("tr")>>

NestingRow(inner) ==
    <<StartTag("tr", <<>>), StartTag("td", <<>>)>> \o inner
    \o <<EndTag("td"), EndTag("tr")>>

InnerTables ==
    {<<StartTag("table", <<>>), EndTag("table")>>,
     <<StartTag("table", <<>>)>> \o PlainRow("i1") \o <<EndTag("table")>>,
     <<StartTag("table", <<>>)>> \o PlainRow("j1") \o PlainRow("j2")
         \o <<EndTag("table")>>}

NestedRows == {PlainRow("o2")} \cup {NestingRow(inner) : inner \in InnerTables}

RECURSIVE Flatten(_)
Flatten(seqs) == IF Len(seqs) = 0 THEN <<>> ELSE Head(seqs) \o Flatten(Tail(seqs))

NestedDoc(rows) ==
    <<StartTag("table", <<>>)>> \o PlainRow("o1") \o Flatten(rows)
    \o <<EndTag("table")>>

NestedDocs == {NestedDoc(rows) : rows \in SeqsUpTo(NestedRows, MaxNested)}

InitNested ==
    /\ variant = "api"
    /\ pc = "document"
    /\ html \in NestedDocs
    /\ parser = NewParser
    /\ idx = 0
    /\ base_url = ""
    /\ filtered_urls = <<>>
    /\ request = NoRequest
    /\ repo_url = ""
    /\ contract_urls = <<>>
    /\ results = <<>>
    /\ response = NoResponse
    /\ fetched = <<>>
    /\ outcomes = <<>>
    /\ AuxInit

\* parser = SimpleHTMLParser(); parser.feed(html_content)
FeedDocument ==
    /\ pc = "document"
    /\ parser' = Feed(NewParser, html)
    /\ pc' = "extracted"
    /\ UNCHANGED <<variant, request, repo_url, contract_urls, results, response,
                   idx, fetched, outcomes, html, base_url, filtered_urls, aux>>

NextNested == FeedDocument

SpecNested == InitNested /\ [][NextNested]_vars

(***************************************************************************)
(* SpecRuns: the same document extracted twice in one process.  The lists  *)
(* of the first parser stay in memory, so the second parser's tobj and     *)
(* robj start as the first parser left them and grow by the lists the      *)
(* second parser allocates.                                                *)
(***************************************************************************)
\* mutant: links a class attribute (`links = []` in the class body), one
\* list shared by every instance
NewInstance_SharedLinks(prev) ==
    [tables |-> <<>>,
     current_table |-> Len(prev.tobj) + 1,
     current_row |-> Len(prev.robj) + 1,
     current_cell |-> "", in_table |-> FALSE, in_row |-> FALSE,
     in_cell |-> FALSE, links |-> prev.links,
     tobj |-> Append(prev.tobj, <<>>), robj |-> Append(prev.robj, <<>>)]

\* SimpleHTMLParser() called while the lists of the parser prev exist:
\* __init__ binds every attribute to a new object
NewInstance(prev) ==
    [tables |-> <<>>,
     current_table |-> Len(prev.tobj) + 1,
     current_row |-> Len(prev.robj) + 1,
     current_cell |-> "", in_table |-> FALSE, in_row |-> FALSE,
     in_cell |-> FALSE, links |-> <<>>,
     tobj |-> Append(prev.tobj, <<>>), robj |-> Append(prev.robj, <<>>)]

\* documents whose tags do not pair up
BrokenDocs ==
    {<<StartTag("table", <<>>), StartTag("tr", <<>>), StartTag("td", <<>>),
       EndTag("td"), StartTag("td", <<>>), EndTag("tr"), Text("late"),
       EndTag("td"), EndTag("table")>>,
     <<StartTag("table", <<>>), StartTag("tr", <<>>), StartTag("td", <<>>),
       Text("a"), EndTag("td"), EndTag("tr"), StartTag("tr", <<>>),
       StartTag("td", <<>>), Text("b"), EndTag("td"), EndTag("table"),
       EndTag("tr"), EndTag("table")>>,
     <<EndTag("td"), EndTag("tr"), EndTag("table"), StartTag("td", <<>>),
       StartTag("a", <<<<"href", "u">>>>), Text("x")>>,
     <<StartTag("table", <<>>), StartTag("tr", <<>>), StartTag("th", <<>>)>>
         \o Anchor("u") \o Anchor("u")}

RunDocs == Listings \cup Details \cup NestedDocs \cup BrokenDocs

InitRuns ==
    /\ variant = "api"
    /\ pc = "run"
    /\ html \in RunDocs
    /\ parser = NewParser
    /\ idx = 0
    /\ base_url = ""
    /\ filtered_urls = <<>>
    /\ request = NoRequest
    /\ repo_url = ""
    /\ contract_urls = <<>>
    /\ results = <<>>
    /\ response = NoResponse
    /\ fetched = <<>>
    /\ outcomes = <<>>
    /\ AuxInit

\* the first run: parser = SimpleHTMLParser(); parser.feed(html_content)
FirstRun ==
    /\ pc = "run"
    /\ parser' = Feed(NewParser, html)
    /\ pc' = "ran_once"
    /\ UNCHANGED <<variant, request, repo_url, contract_urls, results, response,
                   idx, fetched, outcomes, html, base_url, filtered_urls, aux>>

\* the second run, on the same input, with a parser of its own
SecondRun ==
    /\ pc = "ran_once"
    /\ parser2' = Feed(NewInstance(parser), html)
    /\ pc' = "ran_twice"
    /\ UNCHANGED <<variant, request, repo_url, contract_urls, results, response,
                   idx, fetched, outcomes, html, base_url, parser,
                   filtered_urls, event, scan, parsed>>

NextRuns == FirstRun \/ SecondRun

SpecRuns == InitRuns /\ [][NextRuns]_vars

(***************************************************************************)
(* SpecDetail: scrape_contract_detail on one detail page, one step per     *)
(* test and per cell of its loops.  The function is the same in both       *)
(* source files.  `scan` holds parser.tables, the table t, the row i, the  *)
(* cell c the loops are at, and the three locals f; `phase` is the         *)
(* position in the loop body:                                              *)
(*   "row"    at `for i, row in enumerate(table)`                          *)
(*   "lowbid" in `for cell in row` of a low-bid row                        *)
(*   "next"   in `for cell in next_row`                                    *)
(*   "awardtest" at `if 'award' in row_text and 'awardee' in row_text`     *)
(*   "award"  in `for cell in row` of an awardee row                       *)
(*   "returned" after the return statement (scan.data is the result)       *)
(* A page is a sequence of at most MaxItems items, each a row or the break *)
(* between one table and the next.                                         *)
(***************************************************************************)
MaxItems == 3

DetailRows ==
    {<<"Low Bid", "Acme Construction Co", "$1,234,567.89">>,
     <<"Low Bid">>,
     <<"Lowest Bid", "$5.00", "Acme Construction Co", "$7.50", "Bolt & Sons, Inc.">>,
     <<"Bolt & Sons, Inc.", "$9.99", "Acme Construction Co">>,
     <<"$9.99", "$2,000,000.00">>,
     <<"Awardee", "Delta Paving Corp.">>}

TableBreak == <<>>

\* a row whose one cell holds a table of one row, "i1"
NestedTable == <<"<table>">>

ItemEvents(item) ==
    IF item = TableBreak THEN <<EndTag("table"), StartTag("table", <<>>)>>
    ELSE IF item = NestedTable
    THEN NestingRow(<<StartTag("table", <<>>)>> \o PlainRow("i1")
                    \o <<EndTag("table")>>)
    ELSE TableEvents(<<item>>)

DetailPage(items) ==
    <<StartTag("table", <<>>)>>
    \o Flatten([k \in 1..Len(items) |-> ItemEvents(items[k])])
    \o <<EndTag("table")>>

DetailPages ==
    {DetailPage(items) : items \in SeqsUpTo(DetailRows \cup {TableBreak, NestedTable}, MaxItems)}

NoFields == [low_bidder |-> "", low_bid_amount |-> "", awardee |-> ""]

\* row i of table t, the empty row where there is none
RowAt(tables, t, i) ==
    IF t \in 1..Len(tables) /\ i \in 1..Len(tables[t]) THEN tables[t][i] ELSE <<>>

\* row_text = ' '.join(row).lower()
row_text_of(row) == Lower(Join(" ", row))

is_low_bid_row(row) ==
    Contains(row_text_of(row), "low bid") \/ Contains(row_text_of(row), "lowest bid")

is_award_row(row) ==
    Contains(row_text_of(row), "award") /\ Contains(row_text_of(row), "awardee")

InitDetail ==
    /\ variant = "api"
    /\ pc = "detail_page"
    /\ html \in DetailPages
    /\ parser = NewParser
    /\ idx = 0
    /\ base_url = ""
    /\ filtered_urls = <<>>
    /\ request = NoRequest
    /\ repo_url = ""
    /\ contract_urls = <<>>
    /\ results = <<>>
    /\ response = NoResponse
    /\ fetched = <<>>
    /\ outcomes = <<>>
    /\ AuxInit

DetailFrame ==
    UNCHANGED <<variant, request, repo_url, contract_urls, results, response,
                idx, fetched, outcomes, html, base_url, filtered_urls, event,
                parser2, parsed>>

\* parser.feed(html_content); the three locals start empty
ScanStart ==
    /\ pc = "detail_page"
    /\ parser' = Feed(NewParser, html)
    /\ scan' = [phase |-> "row", tables |-> TablesOf(parser'),
                t |-> 1, i |-> 1, c |-> 1, f |-> NoFields, data |-> NoFields]
    /\ pc' = "scanning"
    /\ DetailFrame

\* the two `for` statements: the next row, the next table, or the end of
\* the loops; and the test for a low-bid row
RowTest ==
    /\ pc = "scanning" /\ scan.phase = "row"
    /\ scan' =
          IF scan.t > Len(scan.tables)
          THEN [scan EXCEPT !.phase = "return"]
          ELSE IF scan.i > Len(scan.tables[scan.t])
          THEN [scan EXCEPT !.t = scan.t + 1, !.i = 1]
          ELSE IF is_low_bid_row(scan.tables[scan.t][scan.i])
          THEN [scan EXCEPT !.phase = "lowbid", !.c = 1]
          ELSE [scan EXCEPT !.phase = "awardtest"]
    /\ UNCHANGED <<pc, parser>>
    /\ DetailFrame

\* mutant: no `if i + 1 < len(table)` before next_row = table[i + 1]
LowBidStep_NoNextRowTest ==
    /\ pc = "scanning" /\ scan.phase = "lowbid"
    /\ LET row == scan.tables[scan.t][scan.i]
       IN  scan' =
             IF scan.c <= Len(row)
             THEN [scan EXCEPT !.f = LowBidCell(scan.f, row[scan.c]),
                               !.c = scan.c + 1]
             ELSE [scan EXCEPT !.phase = "next", !.c = 1]
    /\ UNCHANGED <<pc, parser>>
    /\ DetailFrame

\* `for cell in row` of a low-bid row, then `if i + 1 < len(table)`
LowBidStep ==
    /\ pc = "scanning" /\ scan.phase = "lowbid"
    /\ LET row == scan.tables[scan.t][scan.i]
       IN  scan' =
             IF scan.c <= Len(row)
             THEN [scan EXCEPT !.f = LowBidCell(scan.f, row[scan.c]),
                               !.c = scan.c + 1]
             ELSE IF scan.i + 1 <= Len(scan.tables[scan.t])
             THEN [scan EXCEPT !.phase = "next", !.c = 1]
             ELSE [scan EXCEPT !.phase = "awardtest"]
    /\ UNCHANGED <<pc, parser>>
    /\ DetailFrame

\* `for cell in next_row`
NextRowStep ==
    /\ pc = "scanning" /\ scan.phase = "next"
    /\ LET next_row == RowAt(scan.tables, scan.t, scan.i + 1)
       IN  scan' =
             IF scan.c <= Len(next_row)
             THEN [scan EXCEPT !.f = NextRowCell(scan.f, next_row[scan.c]),
                               !.c = scan.c + 1]
             ELSE [scan EXCEPT !.phase = "awardtest"]
    /\ UNCHANGED <<pc, parser>>
    /\ DetailFrame

\* `if 'award' in row_text and 'awardee' in row_text`
AwardTest ==
    /\ pc = "scanning" /\ scan.phase = "awardtest"
    /\ scan' =
          IF is_award_row(scan.tables[scan.t][scan.i])
          THEN [scan EXCEPT !.phase = "award", !.c = 1]
          ELSE [scan EXCEPT !.phase = "row", !.i = scan.i + 1]
    /\ UNCHANGED <<pc, parser>>
    /\ DetailFrame

\* `for cell in row` of an awardee row
AwardStep ==
    /\ pc = "scanning" /\ scan.phase = "award"
    /\ LET row == scan.tables[scan.t][scan.i]
       IN  scan' =
             IF scan.c <= Len(row)
             THEN [scan EXCEPT !.f = AwardCell(scan.f, row[scan.c]),
                               !.c = scan.c + 1]
             ELSE [scan EXCEPT !.phase = "row", !.i = scan.i + 1]
    /\ UNCHANGED <<pc, parser>>
    /\ DetailFrame

\* the return statement
ReturnData ==
    /\ pc = "scanning" /\ scan.phase = "return"
    /\ scan' = [scan EXCEPT
                   !.phase = "returned",
                   !.data = [low_bidder     |-> OrNotFound(scan.f.low_bidder),
                             low_bid_amount |-> OrNotFound(scan.f.low_bid_amount),
                             awardee        |-> OrNotFound(scan.f.awardee)]]
    /\ pc' = "scraped"
    /\ UNCHANGED parser
    /\ DetailFrame

NextDetail ==
    \/ ScanStart
    \/ RowTest
    \/ LowBidStep
    \/ NextRowStep
    \/ AwardTest
    \/ AwardStep
    \/ ReturnData

SpecDetail == InitDetail /\ [][NextDetail]_vars

\* the loops taken one step at a time return what the function returns
StepsAgreeWithFunction ==
    pc = "scraped" => scan.data = scrape_contract_detail(html)

(***************************************************************************)
(* SpecCsv: the report written by process_repository and read back.  The   *)
(* source has no reader; the reader here is the one the report is written  *)
(* for, the "standard comma-separated escaping" of the interface           *)
(* description: a field in double quotes runs to the closing quote, a      *)
(* doubled quote inside it is one quote, fields end at a comma, records at *)
(* a line end outside quotes.                                              *)
(***************************************************************************)
MaxRecords == 2

CsvUrls == {"http://x/d/1", "http://x/d?id=1,2"}

CsvErrors == {"HTTP Error 404: Not Found", "bad \"status\", line\n2"}

CsvRecords ==
    {error_row(u, m) : u \in CsvUrls, m \in CsvErrors}
    \cup
    {[contract_url |-> "http://x/d/1", low_bidder |-> "Bolt & Sons, Inc.",
      low_bid_amount |-> "$1,234,567.89", awardee |-> "Not Found"],
     [contract_url |-> "http://x/d?id=1,2", low_bidder |-> "Joe \"Digger\" Smith",
      low_bid_amount |-> "Not Found", awardee |-> "Acme\nConstruction"],
     [contract_url |-> "http://x/d/1", low_bidder |-> "Not Found",
      low_bid_amount |-> "Not Found", awardee |-> "Not Found"],
     [contract_url |-> "http://x/d/1", low_bidder |-> "\"\"",
      low_bid_amount |-> "$5 or\r\n$6", awardee |-> "\"Delta\""]}

NewReader ==
    [rows |-> <<>>, row |-> <<>>, field |-> "", state |-> "start_record"]

EndField(rd) == [rd EXCEPT !.row = Append(rd.row, rd.field), !.field = ""]

EndRecord(rd, st) ==
    [rd EXCEPT !.rows = Append(rd.rows, Append(rd.row, rd.field)),
               !.row = <<>>, !.field = "", !.state = st]

\* one character of the report
ReaderStep(rd, ch) ==
    IF rd.state = "after_cr" /\ ch = "\n"
    THEN [rd EXCEPT !.state = "start_record"]
    ELSE IF rd.state \in {"start_record", "after_cr", "start_field"}
    THEN IF ch = "\r" \/ ch = "\n"
         THEN IF rd.state = "start_field"
              THEN EndRecord(rd, IF ch = "\r" THEN "after_cr" ELSE "start_record")
              ELSE [rd EXCEPT !.state =
                                 IF ch = "\r" THEN "after_cr" ELSE "start_record"]
         ELSE IF ch = "\""
         THEN [rd EXCEPT !.state = "in_quoted"]
         ELSE IF ch = ","
         THEN [EndField(rd) EXCEPT !.state = "start_field"]
         ELSE [rd EXCEPT !.field = ch, !.state = "in_field"]
    ELSE IF rd.state = "in_quoted"
    THEN IF ch = "\""
         THEN [rd EXCEPT !.state = "quote_in_quoted"]
         ELSE [rd EXCEPT !.field = rd.field \o ch]
    ELSE \* "in_field" or "quote_in_quoted"
         IF ch = "\"" /\ rd.state = "quote_in_quoted"
         THEN [rd EXCEPT !.field = rd.field \o ch, !.state = "in_quoted"]
         ELSE IF ch = ","
         THEN [EndField(rd) EXCEPT !.state = "start_field"]
         ELSE IF ch = "\r" \/ ch = "\n"
         THEN EndRecord(rd, IF ch = "\r" THEN "after_cr" ELSE "start_record")
         ELSE [rd EXCEPT !.field = rd.field \o ch, !.state = "in_field"]

\* the records of the report, the header among them; a last record with no
\* line end after it is a record too
csv_reader(text) ==
    LET rd == Loop(ReaderStep, NewReader, [i \in 1..Len(text) |-> CharAt(text, i)])
    IN  IF rd.state \in {"start_record", "after_cr"} THEN rd.rows
        ELSE Append(rd.rows, Append(rd.row, rd.field))

\* the records after the header, each as a record over the header's names
DictReader(text) ==
    LET rows   == csv_reader(text)
        header == rows[1]
    IN  [k \in 1..(Len(rows) - 1) |->
            [name \in {header[j] : j \in 1..Len(header)} |->
                LET j == CHOOSE j \in 1..Len(header) : header[j] = name
                IN  IF j <= Len(rows[k + 1]) THEN rows[k + 1][j] ELSE ""]]

InitCsv ==
    /\ variant = "api"
    /\ pc = "accumulated"
    /\ results \in SeqsUpTo(CsvRecords, MaxRecords)
    /\ html = <<>>
    /\ parser = NewParser
    /\ idx = 0
    /\ base_url = ""
    /\ filtered_urls = <<>>
    /\ request = NoRequest
    /\ repo_url = ""
    /\ contract_urls = <<>>
    /\ response = NoResponse
    /\ fetched = <<>>
    /\ outcomes = <<>>
    /\ AuxInit

\* process_repository returns output.getvalue(); the handler sends it
WriteReport ==
    /\ pc = "accumulated"
    /\ response' = SuccessResponse(variant, to_csv(results))
    /\ pc' = "written"
    /\ UNCHANGED <<variant, request, repo_url, contract_urls, results, idx,
                   fetched, outcomes, unused>>

\* the receiver parses the csv of the response
ReadReport ==
    /\ pc = "written"
    /\ parsed' = DictReader(response.csv)
    /\ pc' = "read"
    /\ UNCHANGED <<variant, request, repo_url, contract_urls, results, response,
                   idx, fetched, outcomes, html, base_url, parser,
                   filtered_urls, event, parser2, scan>>

NextCsv == WriteReport \/ ReadReport

SpecCsv == InitCsv /\ [][NextCsv]_vars

(***************************************************************************)
(* What the claims about SimpleHTMLParser speak of.                        *)
(***************************************************************************)
\* every reference the handlers follow names a list: no handler call can
\* fail on the attribute it appends to
ParserWellFormed ==
    /\ parser.in_table \in BOOLEAN
    /\ parser.in_row \in BOOLEAN
    /\ parser.in_cell \in BOOLEAN
    /\ parser.current_table \in 1..Len(parser.tobj)
    /\ parser.current_row \in 1..Len(parser.robj)
    /\ \A k \in 1..Len(parser.tables) : parser.tables[k] \in 1..Len(parser.tobj)
    /\ \A t \in 1..Len(parser.tobj) :
           \A k \in 1..Len(parser.tobj[t]) :
               parser.tobj[t][k] \in 1..Len(parser.robj)

\* C15: whatever the sequence of start-tag, end-tag and text events
\* (unclosed tags, stray end tags and mismatched nesting included), every
\* handler call leaves a parser on which the next call is defined, and the
\* feed comes to its end with tables and links.
C15_EveryEventHandled == []ParserWellFormed /\ <>(pc = "fed")

\* the input ended with a cell still open, after its row and table closed
C15_Witness ==
    /\ pc = "fed"
    /\ parser.in_cell /\ ~parser.in_row /\ ~parser.in_table
    /\ Len(parser.tables) = 1

\* C19: after any sequence of events every table of the result has at least
\* one row and every row of every table has at least one cell.
C19_NoEmptyTableNoEmptyRow ==
    \A t \in 1..Len(TablesOf(parser)) :
        /\ Len(TablesOf(parser)[t]) >= 1
        /\ \A r \in 1..Len(TablesOf(parser)[t]) : Len(TablesOf(parser)[t][r]) >= 1

\* a table closed with one row in it, after a row without cells was closed
C19_Witness ==
    /\ event = EndTag("table")
    /\ Len(parser.robj) = 3
    /\ Len(parser.tables) = 1
    /\ Len(TablesOf(parser)[1]) = 1

\* C20: a handler call changes links only when it is the start tag of an
\* anchor met while a cell is open, and then it appends the anchor's href
\* values at the end: anchors outside a cell are not captured, and links
\* holds the captured hrefs in document order, duplicates included.
C20_LinksOnlyFromAnchorsInCells ==
    [][pc = "feed" /\ idx' = idx + 1
         => parser'.links =
                IF event'.kind = "start" /\ event'.tag = "a" /\ parser.in_cell
                THEN parser.links \o HrefValues(event'.attrs)
                ELSE parser.links]_vars

\* three anchors in one cell, the second and third with the same href, then
\* an anchor after the cell closed
C20_Witness ==
    /\ parser.links = <<"v", "u", "u">>
    /\ event = StartTag("a", <<<<"href", "u">>>>)
    /\ ~parser.in_cell

\* The table elements of a document in the order they close, each as its
\* label (its first text) and the number of its own rows, found with a
\* stack of open tables; `open` is the stack, `closed` the result.
ElementStep(st, e) ==
    LET n   == Len(st.open)
        top == st.open[n]
    IN  IF e.kind = "start" /\ e.tag = "table"
        THEN [st EXCEPT !.open = Append(st.open, [label |-> "", nrows |-> 0])]
        ELSE IF n = 0 THEN st
        ELSE IF e.kind = "start" /\ e.tag = "tr"
        THEN [st EXCEPT !.open[n].nrows = top.nrows + 1]
        ELSE IF e.kind = "data" /\ top.label = ""
        THEN [st EXCEPT !.open[n].label = e.data]
        ELSE IF e.kind = "end" /\ e.tag = "table"
        THEN [open   |-> SubSeq(st.open, 1, n - 1),
              closed |-> IF top.nrows > 0 THEN Append(st.closed, top)
                         ELSE st.closed]
        ELSE st

TableElements(events) ==
    Loop(ElementStep, [open |-> <<>>, closed |-> <<>>], events).closed

\* the tables of the result, each as its first cell and its number of rows
ResultTables ==
    [k \in 1..Len(TablesOf(parser)) |->
        [label |-> TablesOf(parser)[k][1][1], nrows |-> Len(TablesOf(parser)[k])]]

\* C16 as stated: with nested table markup, every table element that has a
\* non-empty row is in `tables` exactly once, with its own rows, in the
\* order the tables close (an inner table before the table around it).
C16_AsStated == pc = "extracted" => ResultTables = TableElements(html)

PageRowStep(st, e) ==
    LET n   == Len(st.open)
        top == st.open[n]
    IN  IF e.kind = "start" /\ e.tag = "tr"
        THEN [st EXCEPT !.open = Append(st.open, [cells |-> <<>>, text |-> ""])]
        ELSE IF n = 0 THEN st
        ELSE IF e.kind = "start" /\ e.tag \in {"td", "th"}
        THEN [st EXCEPT !.open[n].text = ""]
        ELSE IF e.kind = "data"
        THEN [st EXCEPT !.open[n].text = top.text \o e.data]
        ELSE IF e.kind = "end" /\ e.tag \in {"td", "th"}
        THEN [st EXCEPT !.open[n].cells = Append(top.cells, Strip(top.text))]
        ELSE IF e.kind = "end" /\ e.tag = "tr"
        THEN [open |-> SubSeq(st.open, 1, n - 1),
              rows |-> Append(st.rows, top.cells)]
        ELSE st

PageRows(events) == Loop(PageRowStep, [open |-> <<>>, rows |-> <<>>], events).rows

IsMoneyCell(cell) == Contains(cell, "$")

IsNameCell(cell) == ~Contains(cell, "$") /\ Len(cell) > 10 /\ IsNotNumeric(cell)

IsLabelCell(cell) == ~Contains(cell, "$") /\ Len(cell) <= 10

CellsThat(row, Test(_)) == {k \in 1..Len(row) : Test(row[k])}

\* a label, one name and one amount, and nothing else
IsPlainLowBidRow(row) ==
    /\ is_low_bid_row(row)
    /\ Len(row) = 3
    /\ Cardinality(CellsThat(row, IsLabelCell)) = 1
    /\ Cardinality(CellsThat(row, IsNameCell)) = 1
    /\ Cardinality(CellsThat(row, IsMoneyCell)) = 1

\* C11 as stated: when the only low-bid row of the page is a label, one
\* name and one amount, the result has that name as low_bidder and that
\* amount as low_bid_amount, whatever rows and tables are around the row.
C11_AsStated ==
    pc = "scraped"
    => \A rows \in {PageRows(html)} :
         \A r \in 1..Len(rows) :
            (/\ IsPlainLowBidRow(rows[r])
             /\ \A q \in 1..Len(rows) : is_low_bid_row(rows[q]) => q = r)
            => /\ \E k \in CellsThat(rows[r], IsNameCell) :
                     scan.data.low_bidder = rows[r][k]
               /\ \E k \in CellsThat(rows[r], IsMoneyCell) :
                     scan.data.low_bid_amount = rows[r][k]

RowsScanned == {<<t, i>> \in (1..Len(scan.tables)) \X (1..MaxItems + 1) :
                   i <= Len(scan.tables[t])}

NothingMatches ==
    \A ti \in RowsScanned :
        /\ ~is_low_bid_row(scan.tables[ti[1]][ti[2]])
        /\ ~is_award_row(scan.tables[ti[1]][ti[2]])

\* C12: every row the loops read exists (no subscript out of range), the
\* result has a non-empty value for each field, and all three are
\* "Not Found" when no row is a low-bid row or an awardee row.
C12_NotFoundWithoutMatch ==
    /\ pc = "scanning" /\ scan.phase \in {"lowbid", "next", "awardtest", "award"}
       => <<scan.t, scan.i>> \in RowsScanned
    /\ pc = "scanning" /\ scan.phase = "next"
       => <<scan.t, scan.i + 1>> \in RowsScanned
    /\ pc = "scraped"
       => /\ scan.data.low_bidder # ""
          /\ scan.data.low_bid_amount # ""
          /\ scan.data.awardee # ""
          /\ NothingMatches
             => scan.data = [low_bidder     |-> "Not Found",
                             low_bid_amount |-> "Not Found",
                             awardee        |-> "Not Found"]

\* a page of two tables with money and name cells but no matching row
C12_Witness ==
    /\ pc = "scraped"
    /\ Len(scan.tables) = 2
    /\ scan.tables[1][1] = <<"Bolt & Sons, Inc.", "$9.99", "Acme Construction Co">>
    /\ NothingMatches
    /\ scan.data.low_bidder = "Not Found"

LastOf(S) == CHOOSE k \in S : \A j \in S : j <= k

\* C17: while the loop is in row i+1 of a low-bid row i, a field that has a
\* value keeps it, so a value from row i (the last amount cell and the last
\* name cell of row i) is the value after every cell of row i+1; a field
\* that is empty takes the first amount cell, or name cell, of row i+1.
C17_NextRowFillsOnlyEmpty ==
    [][pc = "scanning" /\ scan.phase = "next"
       => LET row      == scan.tables[scan.t][scan.i]
              next_row == scan.tables[scan.t][scan.i + 1]
              g        == scan'.f
          IN  /\ CellsThat(row, IsMoneyCell) # {}
                 => g.low_bid_amount = row[LastOf(CellsThat(row, IsMoneyCell))]
              /\ CellsThat(row, IsNameCell) # {}
                 => g.low_bidder = row[LastOf(CellsThat(row, IsNameCell))]
              /\ scan.f.low_bid_amount # ""
                 => g.low_bid_amount = scan.f.low_bid_amount
              /\ scan.f.low_bidder # "" => g.low_bidder = scan.f.low_bidder
              /\ scan.c <= Len(next_row) /\ scan.f.low_bid_amount = ""
                     /\ IsMoneyCell(next_row[scan.c])
                 => g.low_bid_amount = next_row[scan.c]
              /\ scan.c <= Len(next_row) /\ scan.f.low_bidder = ""
                     /\ IsNameCell(next_row[scan.c])
                 => g.low_bidder = next_row[scan.c]]_vars

\* row i has no candidate; row i+1 has two name cells and the first is kept
C17_Witness ==
    /\ pc = "scanning" /\ scan.phase = "next" /\ scan.c = 4
    /\ scan.tables[scan.t][scan.i] = <<"Low Bid">>
    /\ scan.tables[scan.t][scan.i + 1]
         = <<"Bolt & Sons, Inc.", "$9.99", "Acme Construction Co">>
    /\ scan.f.low_bidder = "Bolt & Sons, Inc."
    /\ scan.f.low_bid_amount = "$9.99"

\* C18 as stated: the low bidder returned is a cell of more than 10
\* characters that is not purely numeric once '.', ',', '$' and space are
\* removed, whichever of the two rows it came from.
C18_AsStated ==
    pc = "scraped" /\ scan.data.low_bidder # "Not Found"
    => Len(scan.data.low_bidder) > 10 /\ IsNotNumeric(scan.data.low_bidder)

(***************************************************************************)
(* What the claim about the report speaks of.                              *)
(***************************************************************************)
\* C14: reading the report back gives the records process_repository
\* accumulated, the same values in the same order, error rows with their
\* empty fields and fields with commas, quotes and line ends included.
C14_ReportReadsBack == pc = "read" => parsed = results

\* an error row whose message has quotes, a comma and a line end, then a row
\* with a quoted name and a line end in the awardee
C14_Witness ==
    /\ pc = "read"
    /\ Len(results) = 2
    /\ results[1] = error_row("http://x/d?id=1,2", "bad \"status\", line\n2")
    /\ results[2].low_bidder = "Joe \"Digger\" Smith"
    /\ Len(parsed) = 2
    /\ parsed[1].low_bid_amount = ""

(***************************************************************************)
(* What the claim about the order of process_repository's fetches speaks   *)
(* of.                                                                     *)
(***************************************************************************)
\* the first fetch is the listing's; fetch k + 1 is of resolved URL k; the
\* rows appended are as many as the detail fetches made
FetchesInResolutionOrder ==
    /\ Len(fetched) > 0 => fetched[1].url = repo_url
    /\ Len(contract_urls) = 0 => Len(fetched) <= 1
    /\ Len(contract_urls) > 0
       => /\ Len(fetched) = idx + 1
          /\ fetched[1].ok
          /\ Len(results) = idx
          /\ \A k \in 1..idx : /\ fetched[k + 1].url = contract_urls[k]
                               /\ results[k].contract_url = contract_urls[k]

NoUrlFetchedTwice ==
    \A j, k \in 2..Len(fetched) : fetched[j].url = fetched[k].url => j = k

\* C21 as stated: the listing is fetched first, then the resolved URLs one
\* after the other in resolution order, the row of one URL appended before
\* the next fetch, and no detail URL is fetched more than once.
C21_AsStated == FetchesInResolutionOrder /\ NoUrlFetchedTwice

(***************************************************************************)
(* What the claim about the flags of SimpleHTMLParser speaks of.           *)
(***************************************************************************)
\* C22 as stated: after any sequence of events in_cell implies in_row and
\* in_row implies in_table, so nothing that follows a closed table reaches
\* a cell, a row, a table or links.
C22_AsStated ==
    /\ parser.in_cell => parser.in_row
    /\ parser.in_row => parser.in_table

=============================================================================
